---- MODULE Spec2Model ----
(***************************************************************************)
(* Model of workout-helper (src/app.py): the sheet reader                  *)
(* read_recent_workouts, the plan normalisation of                         *)
(* generate_advice_and_next_workout, the writer append_ai_output and the   *)
(* button handler that runs them in sequence.                              *)
(*                                                                         *)
(* A Python str is a sequence of one-character strings, so that strip(),   *)
(* lower() and the regular expression of _normalize_key are computed       *)
(* character by character.  Column positions are 0-based as in the source; *)
(* a cell at position pos of a row is row[pos + 1].                        *)
(***************************************************************************)
EXTENDS Integers, Sequences, FiniteSets, TLC

\* ------------------------------------------------------------------ bounds
MaxRows == 2
MaxLimit == 2
MaxRuns == 2

\* ------------------------------------------------------------- characters
Whitespace == {" ", "\t"}

LowerLetters ==
  {"a","b","c","d","e","f","g","h","i","j","k","l","m",
   "n","o","p","q","r","s","t","u","v","w","x","y","z"}

Digits == {"0","1","2","3","4","5","6","7","8","9"}

LowerOf ==
  [A |-> "a", B |-> "b", C |-> "c", D |-> "d", E |-> "e", F |-> "f",
   G |-> "g", H |-> "h", I |-> "i", J |-> "j", K |-> "k", L |-> "l",
   M |-> "m", N |-> "n", O |-> "o", P |-> "p", Q |-> "q", R |-> "r",
   S |-> "s", T |-> "t", U |-> "u", V |-> "v", W |-> "w", X |-> "x",
   Y |-> "y", Z |-> "z"]

LowerChar(c) == IF c \in DOMAIN LowerOf THEN LowerOf[c] ELSE c

\* str.lower()
RECURSIVE lower(_)
lower(s) == IF s = <<>> THEN <<>> ELSE <<LowerChar(Head(s))>> \o lower(Tail(s))

RECURSIVE LStripOf(_, _)
LStripOf(s, chars) ==
  IF s = <<>> THEN <<>>
  ELSE IF Head(s) \in chars THEN LStripOf(Tail(s), chars) ELSE s

RECURSIVE RStripOf(_, _)
RStripOf(s, chars) ==
  IF s = <<>> THEN <<>>
  ELSE IF s[Len(s)] \in chars THEN RStripOf(SubSeq(s, 1, Len(s) - 1), chars) ELSE s

\* str.strip(chars)
StripOf(s, chars) == RStripOf(LStripOf(s, chars), chars)

\* str.strip(); space and tab stand for the whitespace characters
strip(s) == StripOf(s, Whitespace)

Max(S) == CHOOSE x \in S : \A y \in S : y <= x

\* ---------------------------------------------------------------- literals
S_date == <<"d","a","t","e">>
S_day_type_hdr == <<"d","a","y"," ","t","y","p","e">>
S_exercise == <<"e","x","e","r","c","i","s","e">>
S_set == <<"s","e","t">>
S_week == <<"w","e","e","k">>
S_notes == <<"n","o","t","e","s">>
S_type == <<"t","y","p","e">>
S_workout == <<"w","o","r","k","o","u","t">>
S_workout_log == <<"w","o","r","k","o","u","t","_","l","o","g">>
S_ai_plan_space == <<"a","i"," ","p","l","a","n">>
S_ai_plan_under == <<"a","i","_","p","l","a","n">>

\* ------------------------------------------------------------------ reader
\* {name.strip().lower(): i for i, name in enumerate(header)}: a later column
\* with the same normalised name replaces an earlier one.
_normalize_header_map(header) ==
  LET keys == {lower(strip(header[i])) : i \in DOMAIN header}
  IN  [k \in keys |->
         Max({i \in DOMAIN header : lower(strip(header[i])) = k}) - 1]

_cell(row, idx, key) ==
  IF key \notin DOMAIN idx THEN <<>>
  ELSE IF Len(row) <= idx[key] THEN <<>>
  ELSE row[idx[key] + 1]

RequiredCurrent == {S_date, S_day_type_hdr, S_exercise, S_set}

\* Mutant: any overlap with the four names selects the Current path.
IsCurrentSchema_AnyOverlap(idx) == RequiredCurrent \cap DOMAIN idx # {}

\* {"date", "day type", "exercise", "set"}.issubset(set(idx.keys()))
IsCurrentSchema(idx) == RequiredCurrent \subseteq DOMAIN idx

S_colon_sp == <<":"," ">>
S_set_open == <<" ","(","s","e","t"," ">>
S_set_close == <<")">>
S_week_sp == <<"w","e","e","k"," ">>
S_bar == <<" ","|"," ">>

\* Mutant: the AI markers are compared without lower-casing day_type.
CurrentKeeps_CaseSensitive(day_type, exercise) ==
  /\ day_type # <<>>
  /\ exercise # <<>>
  /\ day_type \notin {S_ai_plan_space, S_ai_plan_under}

\* lines 88-91: the row is kept unless day_type or exercise is empty, or
\* day_type.lower() is one of the two AI markers.
CurrentKeeps(day_type, exercise) ==
  /\ day_type # <<>>
  /\ exercise # <<>>
  /\ lower(day_type) \notin {S_ai_plan_space, S_ai_plan_under}

\* " | ".join(notes_parts)
JoinNotes(week, sheet_notes) ==
  LET w == IF week # <<>> THEN S_week_sp \o week ELSE <<>>
  IN  IF week # <<>> /\ sheet_notes # <<>> THEN w \o S_bar \o sheet_notes
      ELSE IF week # <<>> THEN w
      ELSE sheet_notes

\* lines 93-104: the entry built from a kept Current-schema row
CurrentEntry(row, idx) ==
  LET date == strip(_cell(row, idx, S_date))
      day_type == strip(_cell(row, idx, S_day_type_hdr))
      exercise == strip(_cell(row, idx, S_exercise))
      set_num == strip(_cell(row, idx, S_set))
      week == strip(_cell(row, idx, S_week))
      sheet_notes == strip(_cell(row, idx, S_notes))
      base == day_type \o S_colon_sp \o exercise
      workout == IF set_num # <<>>
                 THEN base \o S_set_open \o set_num \o S_set_close
                 ELSE base
  IN  [date |-> date, workout |-> workout, notes |-> JoinNotes(week, sheet_notes)]

\* lines 79-104: the loop over body on the Current path.  rows[i] is sheet
\* row i; each element of the result carries the sheet row it was built from.
RECURSIVE CurrentLoop(_, _, _, _)
CurrentLoop(rows, idx, i, acc) ==
  IF i > Len(rows) THEN acc
  ELSE LET row == rows[i]
           day_type == strip(_cell(row, idx, S_day_type_hdr))
           exercise == strip(_cell(row, idx, S_exercise))
       IN  IF CurrentKeeps(day_type, exercise)
           THEN CurrentLoop(rows, idx, i + 1,
                            Append(acc, [src |-> i, e |-> CurrentEntry(row, idx)]))
           ELSE CurrentLoop(rows, idx, i + 1, acc)

\* Mutant: the type is compared without regard to letter case.
LegacyKeeps_IgnoreCase(row, idx) ==
  lower(strip(_cell(row, idx, S_type))) = S_workout_log

\* lines 109-110: row_type = _cell(row, idx, "type").strip(); kept when
\* row_type == "workout_log"
LegacyKeeps(row, idx) == strip(_cell(row, idx, S_type)) = S_workout_log

\* lines 112-118
LegacyEntry(row, idx) ==
  [date |-> strip(_cell(row, idx, S_date)),
   workout |-> strip(_cell(row, idx, S_workout)),
   notes |-> strip(_cell(row, idx, S_notes))]

\* lines 108-118: the loop over body on the Legacy path
RECURSIVE LegacyLoop(_, _, _, _)
LegacyLoop(rows, idx, i, acc) ==
  IF i > Len(rows) THEN acc
  ELSE IF LegacyKeeps(rows[i], idx)
       THEN LegacyLoop(rows, idx, i + 1,
                       Append(acc, [src |-> i, e |-> LegacyEntry(rows[i], idx)]))
       ELSE LegacyLoop(rows, idx, i + 1, acc)

\* The branch of line 78 taken for a grid; "none" is the empty grid of line 68.
SchemaPath(rows) ==
  IF rows = <<>> THEN "none"
  ELSE IF IsCurrentSchema(_normalize_header_map(rows[1])) THEN "current"
  ELSE "legacy"

\* The list `workouts` when line 120 is reached (before the slice).
FilterRows(rows) ==
  IF rows = <<>> THEN <<>>
  ELSE LET idx == _normalize_header_map(rows[1])
       IN  IF IsCurrentSchema(idx) THEN CurrentLoop(rows, idx, 2, <<>>)
           ELSE LegacyLoop(rows, idx, 2, <<>>)

\* Python's s[start:] for any integer start
PySliceFrom(s, start) ==
  LET n == Len(s)
      st == IF start < 0 THEN (IF start + n < 0 THEN 0 ELSE start + n)
            ELSE (IF start > n THEN n ELSE start)
  IN  SubSeq(s, st + 1, n)

\* workouts[-limit:]
TailSlice(s, limit) == PySliceFrom(s, 0 - limit)

read_recent_workouts(rows, limit) == TailSlice(FilterRows(rows), limit)

\* The sheet rows the entries of a reader result were built from
Sources(tagged) == {tagged[k].src : k \in DOMAIN tagged}

\* --------------------------------------------------------------- generator
S_day_type == <<"d","a","y","_","t","y","p","e">>
S_weight_lbs == <<"w","e","i","g","h","t","_","l","b","s">>
S_reps == <<"r","e","p","s">>
S_tips == <<"t","i","p","s">>
S_workout_plan == <<"w","o","r","k","o","u","t","_","p","l","a","n">>
S_None == <<"N","o","n","e">>

\* A decoded JSON value: str, null, number, object (its items in order, keys
\* distinct) or array.
JStr(s) == [t |-> "str", s |-> s]
JNull == [t |-> "null"]
JNum(n) == [t |-> "num", n |-> n]
JDict(items) == [t |-> "dict", items |-> items]
JList(elems) == [t |-> "list", elems |-> elems]

DigitChars == <<"0","1","2","3","4","5","6","7","8","9">>

\* str(n) of a non-negative int
RECURSIVE IntToStr(_)
IntToStr(n) ==
  IF n < 10 THEN <<DigitChars[n + 1]>>
  ELSE IntToStr(n \div 10) \o <<DigitChars[(n % 10) + 1]>>

\* str(v) of a decoded JSON scalar
PyStr(v) ==
  IF v.t = "str" THEN v.s
  ELSE IF v.t = "null" THEN S_None
  ELSE IntToStr(v.n)

\* re.sub(r"[^a-z0-9]+", "_", s): inRun says the previous character was
\* already replaced.
RECURSIVE CollapseRuns(_, _)
CollapseRuns(s, inRun) ==
  IF s = <<>> THEN <<>>
  ELSE IF Head(s) \in LowerLetters \cup Digits
       THEN <<Head(s)>> \o CollapseRuns(Tail(s), FALSE)
       ELSE (IF inRun THEN <<>> ELSE <<"_">>) \o CollapseRuns(Tail(s), TRUE)

_normalize_key(key) == StripOf(CollapseRuns(lower(strip(key)), FALSE), {"_"})

\* {_normalize_key(k): str(v).strip() for k, v in row.items()}: a later item
\* with the same normalised key replaces an earlier one.
NormalizeRow(items) ==
  LET keys == {_normalize_key(items[j][1]) : j \in DOMAIN items}
  IN  [k \in keys |->
         strip(PyStr(items[Max({j \in DOMAIN items :
                                  _normalize_key(items[j][1]) = k})][2]))]

\* dict.get(key, default)
Get(d, key, default) == IF key \in DOMAIN d THEN d[key] ELSE default

\* Mutant: only day_type is required.
PlanRowKept_DayTypeOnly(nrow) == Get(nrow, S_day_type, <<>>) # <<>>

\* line 168 negated: the normalised row is kept
PlanRowKept(nrow) ==
  /\ Get(nrow, S_day_type, <<>>) # <<>>
  /\ Get(nrow, S_exercise, <<>>) # <<>>

\* lines 163-170
RECURSIVE NormalizeRows(_, _, _)
NormalizeRows(plan_rows, i, acc) ==
  IF i > Len(plan_rows) THEN acc
  ELSE LET row == plan_rows[i]
       IN  IF row.t # "dict" THEN NormalizeRows(plan_rows, i + 1, acc)
           ELSE IF ~PlanRowKept(NormalizeRow(row.items))
                THEN NormalizeRows(plan_rows, i + 1, acc)
           ELSE NormalizeRows(plan_rows, i + 1, Append(acc, NormalizeRow(row.items)))

\* parsed.get(key, default) on the decoded top-level object
TopGet(parsed, key, default) ==
  LET js == {j \in DOMAIN parsed.items : parsed.items[j][1] = key}
  IN  IF js = {} THEN default ELSE parsed.items[CHOOSE j \in js : TRUE][2]

\* The model's reply: its text is plain JSON ("json"), JSON inside ``` fences
\* ("fenced") or not JSON at all ("garbage"); value is what the JSON decodes to.
\* lines 125-129: both json.loads calls fail on text that is not JSON.
ParseRaises(reply) == reply.fmt = "garbage"

\* lines 124-129: plain JSON decodes at line 126; fenced JSON fails there and
\* decodes at line 129 once the fences are removed.
_parse_response_json(reply) == reply.value

\* lines 159-175 raise when parsed has no .get (not an object) or tips has no
\* .strip (not a string).
NormalizeRaises(parsed) ==
  IF parsed.t # "dict" THEN TRUE
  ELSE TopGet(parsed, S_tips, JStr(<<>>)).t # "str"

\* lines 159-175
NormalizeAdvice(parsed) ==
  LET got == TopGet(parsed, S_workout_plan, JList(<<>>))
      plan_rows == IF got.t # "list" THEN <<>> ELSE got.elems
  IN  [tips |-> strip(TopGet(parsed, S_tips, JStr(<<>>)).s),
       workout_plan |-> NormalizeRows(plan_rows, 1, <<>>)]

\* ------------------------------------------------------------------ writer
S_AI_Plan == <<"A","I"," ","P","l","a","n">>
S_No_plan_rows ==
  <<"N","o"," ","p","l","a","n"," ","r","o","w","s"," ",
    "r","e","t","u","r","n","e","d">>

\* lines 250-259
PlanRowValues(row, today) ==
  <<Get(row, S_week, <<>>), Get(row, S_date, today), Get(row, S_day_type, <<>>),
    Get(row, S_exercise, <<>>), Get(row, S_set, <<>>), Get(row, S_weight_lbs, <<>>),
    Get(row, S_reps, <<>>), Get(row, S_notes, <<>>)>>

\* line 264
PlaceholderRow(today, tips) ==
  <<<<>>, today, S_AI_Plan, S_No_plan_rows, <<>>, <<>>, <<>>, tips>>

\* Mutant: no placeholder row; an empty plan sends no rows.
AppendValues_NoPlaceholder(tips, workout_plan, today) ==
  [i \in DOMAIN workout_plan |-> PlanRowValues(workout_plan[i], today)]

\* lines 247-264: the body of the append request
AppendValues(tips, workout_plan, today) ==
  LET values == [i \in DOMAIN workout_plan |-> PlanRowValues(workout_plan[i], today)]
  IN  IF Len(workout_plan) = 0 THEN <<PlaceholderRow(today, tips)>> ELSE values

\* s.split(sep, 1): <<before, after>>, or <<s>> when sep does not occur
RECURSIVE SplitOnce(_, _, _)
SplitOnce(s, sep, before) ==
  IF s = <<>> THEN <<before>>
  ELSE IF Head(s) = sep THEN <<before, Tail(s)>>
  ELSE SplitOnce(Tail(s), sep, Append(before, Head(s)))

RECURSIVE TakeDigits(_)
TakeDigits(s) ==
  IF s = <<>> \/ Head(s) \notin Digits THEN <<>>
  ELSE <<Head(s)>> \o TakeDigits(Tail(s))

\* re.search(r"\d+", s): the first run of digits, <<>> when there is none
RECURSIVE FirstDigits(_)
FirstDigits(s) ==
  IF s = <<>> THEN <<>>
  ELSE IF Head(s) \in Digits THEN TakeDigits(s)
  ELSE FirstDigits(Tail(s))

DigitValue(c) == CHOOSE d \in 0..9 : DigitChars[d + 1] = c

\* int(digits)
RECURSIVE ToInt(_, _)
ToInt(s, acc) == IF s = <<>> THEN acc ELSE ToInt(Tail(s), acc * 10 + DigitValue(Head(s)))

\* lines 180-183 raise: no "!", no ":", or a reference without a row number
RangeParseRaises(updated_range) ==
  LET parts == SplitOnce(updated_range, "!", <<>>)
  IN  IF Len(parts) < 2 THEN TRUE
      ELSE LET refs == SplitOnce(parts[2], ":", <<>>)
           IN  IF Len(refs) < 2 THEN TRUE
               ELSE FirstDigits(refs[1]) = <<>> \/ FirstDigits(refs[2]) = <<>>

_parse_updated_range_rows(updated_range) ==
  LET cells == SplitOnce(updated_range, "!", <<>>)[2]
      refs == SplitOnce(cells, ":", <<>>)
  IN  <<ToInt(FirstDigits(refs[1]), 0), ToInt(FirstDigits(refs[2]), 0)>>

\* lines 210-219: the range of the repeatCell request
FormatRequest(start_row, end_row) ==
  [startRowIndex |-> start_row - 1, endRowIndex |-> end_row,
   startColumnIndex |-> 0, endColumnIndex |-> 8]

\* -------------------------------------------------------------- the sheets
\* Header rows a sheet may have.
\* Week | Date | Day Type | Exercise | Set
HdrCanon ==
  <<<<"W","e","e","k">>, <<"D","a","t","e">>,
    <<"D","a","y"," ","T","y","p","e">>, <<"E","x","e","r","c","i","s","e">>,
    <<"S","e","t">>>>
\* the four Current names in another order, case and padding
HdrLoose ==
  <<<<"E","X","E","R","C","I","S","E">>, <<" ","d","a","t","e"," ">>,
    <<"s","e","t","\t">>, <<"D","a","y"," ","T","y","p","e">>>>
\* three of the four Current names, and a type column
HdrPartial ==
  <<<<"D","a","t","e">>, <<"T","y","p","e">>,
    <<"D","a","y"," ","T","y","p","e">>,
    <<"E","x","e","r","c","i","s","e">>>>
\* date | type | workout | notes | ai_output
HdrLegacy ==
  <<<<"d","a","t","e">>, <<"t","y","p","e">>,
    <<"w","o","r","k","o","u","t">>, <<"n","o","t","e","s">>,
    <<"a","i","_","o","u","t","p","u","t">>>>
\* Legacy names in another case and padding
HdrLegacyLoose ==
  <<<<" ","D","a","t","e">>, <<"T","Y","P","E"," ">>,
    <<"W","o","r","k","o","u","t">>>>
\* the four Current names, day type twice: the later column is the one read
HdrTwice ==
  <<<<"D","a","y"," ","T","y","p","e">>, <<"D","a","t","e">>,
    <<"E","x","e","r","c","i","s","e">>, <<"S","e","t">>,
    <<"d","a","y"," ","t","y","p","e">>>>
\* neither schema: day_type is not "day type", and no type column
HdrUnknown ==
  <<<<"W","e","e","k">>, <<"D","a","t","e">>,
    <<"D","a","y","_","T","y","p","e">>, <<"E","x","e","r","c","i","s","e">>,
    <<"S","e","t">>>>

Headers ==
  {HdrCanon, HdrLoose, HdrPartial, HdrLegacy, HdrLegacyLoose, HdrTwice,
   HdrUnknown}

\* Data rows a sheet may hold; rows may be shorter than the header.
RowPush ==
  <<<<"1">>, <<"d","1">>, <<"P","u","s","h">>, <<"B","e","n","c","h">>,
    <<"1">>>>
RowAiPlan ==
  <<<<"1">>, <<"d","1">>, <<"A","I"," ","P","l","a","n">>,
    <<"T","i","p","s">>, <<"-">>>>
RowLog ==
  <<<<"d","1">>, <<"w","o","r","k","o","u","t","_","l","o","g">>,
    <<"P","u","s","h"," ","D","a","y">>, <<"o","k">>>>
RowLogPadded ==
  <<<<"d","2">>, <<" ","w","o","r","k","o","u","t","_","l","o","g"," ">>,
    <<"R","u","n">>>>
RowLogCase ==
  <<<<"d","2">>, <<"W","o","r","k","o","u","t","_","L","o","g">>,
    <<"a","i","_","p","l","a","n"," ">>, <<"S","q","u","a","t">>>>
RowBlankDay ==
  <<<<"2">>, <<"d","2">>, <<" ">>, <<"B","e","n","c","h">>>>
RowAiLast ==
  <<<<"x">>, <<"d","3">>, <<>>, <<"A","i"," ","P","l","a","n">>>>

RowChoices ==
  {RowPush, RowAiPlan, RowLog, RowLogPadded,
   RowLogCase, RowBlankDay, RowAiLast}

\* All sequences over S of length at most n
RECURSIVE SeqsUpTo(_, _)
SeqsUpTo(S, n) ==
  IF n = 0 THEN {<<>>}
  ELSE LET shorter == SeqsUpTo(S, n - 1)
       IN  shorter \cup {Append(q, x) : q \in shorter, x \in S}

\* The grids values.get may return: nothing, or a header and up to n data rows
\* drawn from rows
GridsUpTo(rows, n) ==
  {<<>>} \cup {<<h>> \o body : h \in Headers, body \in SeqsUpTo(rows, n)}

\* The data rows of the sheets the button is pressed on
LoggedRows == {RowPush, RowAiPlan, RowLog}

\* datetime.now().strftime("%Y-%m-%d")
S_today == <<"2","0","2","6","-","1","1","-","0","1">>
Todays == {S_today}

\* os.getenv("SHEET_TAB", "Workouts")
S_tab_name == <<"W","o","r","k","o","u","t","s">>

\* --------------------------------------------------- the model's replies
\* Elements a reply's workout_plan array may hold.
\* all eight keys as asked for
PlanFull ==
  JDict(<<<<<<"w","e","e","k">>, JStr(<<"1">>)>>,
     <<<<"d","a","t","e">>, JStr(<<"2","0","2","6","-","1","1","-","0","2">>)>>,
     <<<<"d","a","y","_","t","y","p","e">>, JStr(<<"P","u","s","h">>)>>,
     <<<<"e","x","e","r","c","i","s","e">>, JStr(<<"B","e","n","c","h">>)>>,
     <<<<"s","e","t">>, JStr(<<"1">>)>>,
     <<<<"w","e","i","g","h","t","_","l","b","s">>, JStr(<<"9","5">>)>>,
     <<<<"r","e","p","s">>, JStr(<<"5">>)>>,
     <<<<"n","o","t","e","s">>, JStr(<<"o","k">>)>>>>)
\* keys and values that need normalising; no date
PlanLoose ==
  JDict(<<<<<<"D","a","y"," ","T","y","p","e">>, JStr(<<" ","P","u","l","l"," ">>)>>,
     <<<<" ","E","x","e","r","c","i","s","e"," ">>, JStr(<<"R","o","w">>)>>,
     <<<<"W","e","i","g","h","t"," ","(","l","b","s",")">>, JNum(80)>>>>)
\* no exercise key
PlanNoExercise ==
  JDict(<<<<<<"d","a","y","_","t","y","p","e">>, JStr(<<"L","e","g","s">>)>>>>)
\* exercise is blank
PlanBlankExercise ==
  JDict(<<<<<<"d","a","y","_","t","y","p","e">>, JStr(<<"L","e","g","s">>)>>,
     <<<<"e","x","e","r","c","i","s","e">>, JStr(<<" ">>)>>>>)
\* two keys normalise to day_type; the later one is empty
PlanCollide ==
  JDict(<<<<<<"d","a","y","_","t","y","p","e">>, JStr(<<"P","u","s","h">>)>>,
     <<<<"D","a","y"," ","T","y","p","e">>, JStr(<<>>)>>,
     <<<<"e","x","e","r","c","i","s","e">>, JStr(<<"B","e","n","c","h">>)>>>>)
\* day_type is null: str(None) is "None"
PlanNullDay ==
  JDict(<<<<<<"d","a","y","_","t","y","p","e">>, JNull>>,
     <<<<"e","x","e","r","c","i","s","e">>, JStr(<<"S","q","u","a","t">>)>>>>)

JsonTips(s) == <<S_tips, JStr(s)>>
JsonPlan(elems) == <<S_workout_plan, JList(elems)>>

ReplyFull ==
  [fmt |-> "json",
   value |-> JDict(<<JsonTips(<<" ","g","o"," ">>), JsonPlan(<<PlanFull>>)>>)]
ReplyMixed ==
  [fmt |-> "fenced",
   value |-> JDict(<<JsonPlan(<<JStr(<<"x">>), PlanLoose, PlanNoExercise, PlanFull,
                                PlanBlankExercise, PlanCollide, JNull, PlanNullDay>>),
                     JsonTips(<<"t">>)>>)]
ReplyEmptyPlan ==
  [fmt |-> "json", value |-> JDict(<<JsonTips(<<"r","e","s","t">>), JsonPlan(<<>>)>>)]
ReplyAllDropped ==
  [fmt |-> "json",
   value |-> JDict(<<JsonTips(<<"r","e","s","t">>), JsonPlan(<<PlanNoExercise, JNum(3)>>)>>)]
ReplyPlanNotList ==
  [fmt |-> "fenced", value |-> JDict(<<JsonTips(<<"r","e","s","t">>), <<S_workout_plan, JStr(<<"n","o","n","e">>)>>>>)]
ReplyNoTipsKey ==
  [fmt |-> "json", value |-> JDict(<<JsonPlan(<<PlanFull>>)>>)]
ReplyGarbage == [fmt |-> "garbage", value |-> JNull]
ReplyNotObject == [fmt |-> "json", value |-> JList(<<PlanFull>>)]
ReplyTipsNull ==
  [fmt |-> "json", value |-> JDict(<<<<S_tips, JNull>>, JsonPlan(<<PlanFull>>)>>)]

Replies ==
  {ReplyFull, ReplyMixed, ReplyEmptyPlan, ReplyAllDropped, ReplyPlanNotList,
   ReplyNoTipsKey, ReplyGarbage, ReplyNotObject, ReplyTipsNull}

NoReply == [fmt |-> "none", value |-> JNull]
NoAdvice == [tips |-> <<>>, workout_plan |-> <<>>]

\* ------------------------------------------------- the append call's answer
\* updates.updatedRange as the service reports it for rows first..last
RangeReported(first, last) ==
  S_tab_name \o <<"!","A">> \o IntToStr(first) \o <<":","H">> \o IntToStr(last)

\* What append_result may carry: the range written, a reference without row
\* numbers, or no updatedRange at all (the "" of line 278).
RangeAnswers(first, last) ==
  {RangeReported(first, last), S_tab_name \o <<"!","A",":","H">>, <<>>}

NoFormat == [startRowIndex |-> 0, endRowIndex |-> 0,
             startColumnIndex |-> 0, endColumnIndex |-> 0]

\* ------------------------------------------------------------------- state
MaxSheetRows == 1
HandlerLimit == 10

VARIABLES
  sheet,          \* the tab's grid, columns A:H; sheet[1] is the header row
  pc,             \* where the handler (or a direct reader call) stands
  limit,          \* the limit argument of the reader call
  path,           \* the branch of line 78 the last read took
  filtered,       \* `workouts` at line 120 before the slice, with source rows
  workouts,       \* what read_recent_workouts returned, with source rows
  reply,          \* response.output_text of this invocation
  ai,             \* what generate_advice_and_next_workout returned
  today,          \* `today` of append_ai_output
  values,         \* body.values of the append request
  updated_range,  \* updates.updatedRange of the append answer
  formatted,      \* the range of the repeatCell request that succeeded
  outcome,        \* what the page shows: none, warning, success, error
  exc,            \* the exception that reached line 324, or "none"
  calls,          \* remote calls issued in this invocation
  aiRows,         \* sheet rows appended by append_ai_output in any invocation
  runs            \* button presses so far

vars ==
  <<sheet, pc, limit, path, filtered, workouts, reply, ai, today, values,
    updated_range, formatted, outcome, exc, calls, aiRows, runs>>

NoCalls == [model |-> 0, append |-> 0, meta |-> 0, format |-> 0]

\* The locals of one invocation before it starts
Locals ==
  /\ path = "none"
  /\ filtered = <<>>
  /\ workouts = <<>>
  /\ reply = NoReply
  /\ ai = NoAdvice
  /\ today = <<>>
  /\ values = <<>>
  /\ updated_range = <<>>
  /\ formatted = NoFormat
  /\ outcome = "none"
  /\ exc = "none"
  /\ calls = NoCalls

Init ==
  /\ sheet \in GridsUpTo(LoggedRows, MaxSheetRows)
  /\ pc = "idle"
  /\ limit = HandlerLimit
  /\ aiRows = {}
  /\ runs = 0
  /\ Locals

\* Mutant: the handler never takes the "nothing found" branch.
NothingFound_Never(found) == FALSE

\* line 305: `if not workouts`
NothingFound(found) == Len(found) = 0

\* line 325: any exception ends the run with st.error
Raise(what) ==
  /\ pc' = "done"
  /\ outcome' = "error"
  /\ exc' = what

\* lines 299-303: the button is pressed and the configuration is read
Click ==
  /\ pc = "idle"
  /\ runs < MaxRuns
  /\ runs' = runs + 1
  /\ pc' = "read"
  /\ UNCHANGED <<sheet, limit, path, filtered, workouts, reply, ai, today, values,
                 updated_range, formatted, outcome, exc, calls, aiRows>>

\* lines 301-303 raise: an env var is missing or the client cannot be built
ConfigFail ==
  /\ pc = "idle"
  /\ runs < MaxRuns
  /\ runs' = runs + 1
  /\ Raise("config")
  /\ UNCHANGED <<sheet, limit, path, filtered, workouts, reply, ai, today, values,
                 updated_range, formatted, calls, aiRows>>

\* lines 304-306: read_recent_workouts(service, sheet_id, tab_name, limit=10)
Read ==
  /\ pc = "read"
  /\ path' = SchemaPath(sheet)
  /\ filtered' = FilterRows(sheet)
  /\ workouts' = read_recent_workouts(sheet, limit)
  /\ IF NothingFound(workouts')
     THEN pc' = "done" /\ outcome' = "warning"
     ELSE pc' = "generate" /\ outcome' = outcome
  /\ UNCHANGED <<sheet, limit, reply, ai, today, values, updated_range, formatted,
                 exc, calls, aiRows, runs>>

\* lines 61-66 raise: the values.get call fails
ReadFail ==
  /\ pc = "read"
  /\ Raise("read")
  /\ UNCHANGED <<sheet, limit, path, filtered, workouts, reply, ai, today, values,
                 updated_range, formatted, calls, aiRows, runs>>

\* lines 308, 132-175: the model answers and its reply is normalised
Generate ==
  /\ pc = "generate"
  /\ \E r \in Replies :
       /\ ~ParseRaises(r)
       /\ ~NormalizeRaises(_parse_response_json(r))
       /\ reply' = r
       /\ ai' = NormalizeAdvice(_parse_response_json(r))
  /\ calls' = [calls EXCEPT !.model = @ + 1]
  /\ pc' = "append"
  /\ UNCHANGED <<sheet, limit, path, filtered, workouts, today, values,
                 updated_range, formatted, outcome, exc, aiRows, runs>>

\* lines 147-175 raise: the model call fails, or its reply does not decode
\* or is not an object with a string under tips
GenerateFail ==
  /\ pc = "generate"
  /\ calls' = [calls EXCEPT !.model = @ + 1]
  /\ \/ /\ reply' = NoReply
        /\ Raise("model")
     \/ \E r \in Replies :
          /\ reply' = r
          /\ \/ ParseRaises(r) /\ Raise("parse")
             \/ ~ParseRaises(r) /\ NormalizeRaises(_parse_response_json(r))
                /\ Raise("normalize")
  /\ UNCHANGED <<sheet, limit, path, filtered, workouts, ai, today, values,
                 updated_range, formatted, aiRows, runs>>

\* lines 309-315, 246-279: the rows are built and the append call succeeds;
\* the service adds them below the last row of the table.  Without an
\* updatedRange in the answer the handler goes on to line 316.
AppendRows ==
  /\ pc = "append"
  /\ \E t \in Todays :
       /\ today' = t
       /\ values' = AppendValues(ai.tips, ai.workout_plan, t)
  /\ sheet' = sheet \o values'
  /\ aiRows' = aiRows \cup (Len(sheet) + 1 .. Len(sheet'))
  /\ calls' = [calls EXCEPT !.append = @ + 1]
  /\ updated_range' \in RangeAnswers(Len(sheet) + 1, Len(sheet'))
  /\ IF updated_range' = <<>>
     THEN pc' = "done" /\ outcome' = "success"
     ELSE pc' = "format" /\ outcome' = outcome
  /\ UNCHANGED <<limit, path, filtered, workouts, reply, ai, formatted, exc, runs>>

\* lines 266-277 raise: the append call fails and nothing is written
AppendFail ==
  /\ pc = "append"
  /\ \E t \in Todays :
       /\ today' = t
       /\ values' = AppendValues(ai.tips, ai.workout_plan, t)
  /\ calls' = [calls EXCEPT !.append = @ + 1]
  /\ Raise("append")
  /\ UNCHANGED <<sheet, limit, path, filtered, workouts, reply, ai, updated_range,
                 formatted, aiRows, runs>>

\* lines 280-281, 203-236, 316: the range is parsed, the tab id is found and
\* the batchUpdate call succeeds
Format ==
  /\ pc = "format"
  /\ ~RangeParseRaises(updated_range)
  /\ LET rows == _parse_updated_range_rows(updated_range)
     IN  formatted' = FormatRequest(rows[1], rows[2])
  /\ calls' = [calls EXCEPT !.meta = @ + 1, !.format = @ + 1]
  /\ pc' = "done"
  /\ outcome' = "success"
  /\ UNCHANGED <<sheet, limit, path, filtered, workouts, reply, ai, today, values,
                 updated_range, exc, aiRows, runs>>

\* lines 280-281 raise: the range does not parse, the tab id lookup fails
\* (the call fails or no sheet has the title), or the batchUpdate call fails
FormatFail ==
  /\ pc = "format"
  /\ \/ /\ RangeParseRaises(updated_range)
        /\ calls' = calls
        /\ Raise("range")
     \/ /\ ~RangeParseRaises(updated_range)
        /\ calls' = [calls EXCEPT !.meta = @ + 1]
        /\ Raise("gid")
     \/ /\ ~RangeParseRaises(updated_range)
        /\ calls' = [calls EXCEPT !.meta = @ + 1, !.format = @ + 1]
        /\ Raise("batch")
  /\ UNCHANGED <<sheet, limit, path, filtered, workouts, reply, ai, today, values,
                 updated_range, formatted, aiRows, runs>>

\* The page is rendered; the next press starts from fresh locals (no
\* component keeps state between invocations).
NextRun ==
  /\ pc = "done"
  /\ pc' = "idle"
  /\ path' = "none"
  /\ filtered' = <<>>
  /\ workouts' = <<>>
  /\ reply' = NoReply
  /\ ai' = NoAdvice
  /\ today' = <<>>
  /\ values' = <<>>
  /\ updated_range' = <<>>
  /\ formatted' = NoFormat
  /\ outcome' = "none"
  /\ exc' = "none"
  /\ calls' = NoCalls
  /\ UNCHANGED <<sheet, limit, aiRows, runs>>

Next ==
  \/ Click
  \/ ConfigFail
  \/ Read
  \/ ReadFail
  \/ Generate
  \/ GenerateFail
  \/ AppendRows
  \/ AppendFail
  \/ Format
  \/ FormatFail
  \/ NextRun

Spec == Init /\ [][Next]_vars

\* ------------------------------------------ the reader called on its own
\* read_recent_workouts as a function of the grid and the limit
InitReader ==
  /\ sheet \in GridsUpTo(RowChoices, MaxRows)
  /\ limit \in 0..MaxLimit
  /\ pc = "call"
  /\ aiRows = {}
  /\ runs = 0
  /\ Locals

ReaderCall ==
  /\ pc = "call"
  /\ path' = SchemaPath(sheet)
  /\ filtered' = FilterRows(sheet)
  /\ workouts' = read_recent_workouts(sheet, limit)
  /\ pc' = "returned"
  /\ UNCHANGED <<sheet, limit, reply, ai, today, values, updated_range, formatted,
                 outcome, exc, calls, aiRows, runs>>

NextReader == ReaderCall

ReaderSpec == InitReader /\ [][NextReader]_vars

\* ------------------------------------------------------------------ claims
\* The columns of header whose trimmed, lower-cased name is name (1-based)
ColumnsNamed(header, name) ==
  {i \in DOMAIN header : lower(strip(header[i])) = name}

\* The cell of row under the last column named name; empty when there is no
\* such column or the row is too short to reach it
CellUnder(header, row, name) ==
  LET cols == ColumnsNamed(header, name)
  IN  IF cols = {} THEN <<>>
      ELSE IF Max(cols) > Len(row) THEN <<>>
      ELSE row[Max(cols)]

DataRows == IF sheet = <<>> THEN {} ELSE 2..Len(sheet)

InOrder(tagged) ==
  \A k \in DOMAIN tagged : \A l \in DOMAIN tagged :
    k < l => tagged[k].src < tagged[l].src

HeaderHasAllFour(header) ==
  \A name \in {S_date, S_day_type_hdr, S_exercise, S_set} :
    ColumnsNamed(header, name) # {}

\* C1: the read takes the Current path exactly when the header row, each cell
\* trimmed and lower-cased, holds all four of date, day type, exercise and
\* set; for every other header it takes the Legacy path.
C1_SchemaSelection ==
  (pc = "returned" /\ sheet # <<>>) =>
    /\ path = "current" <=> HeaderHasAllFour(sheet[1])
    /\ path = "legacy" <=> ~HeaderHasAllFour(sheet[1])

\* C1 witness: a header with the four names reordered, upper-cased and padded
\* was read on the Current path.
C1_Witness ==
  /\ pc = "returned"
  /\ sheet # <<>>
  /\ sheet[1] = HdrLoose
  /\ path = "current"

\* The last n elements of s
LastN(s, n) ==
  SubSeq(s, Len(s) - (IF n < Len(s) THEN n ELSE Len(s)) + 1, Len(s))

\* C2: for every limit >= 0 the read returns at most limit entries, exactly
\* the last limit elements of the filtered sequence in sheet order.
C2_AtMostLimitTail ==
  pc = "returned" =>
    /\ Len(workouts) <= limit
    /\ workouts = LastN(filtered, limit)

CurrentQualifies(header, row) ==
  LET day == strip(CellUnder(header, row, S_day_type_hdr))
      ex == strip(CellUnder(header, row, S_exercise))
  IN  /\ day # <<>>
      /\ ex # <<>>
      /\ lower(day) # S_ai_plan_space
      /\ lower(day) # S_ai_plan_under

\* C3: on the Current path a data row contributes an entry exactly when its
\* day-type and exercise cells are non-empty after trimming and its day type,
\* compared without regard to case, is neither "ai plan" nor "ai_plan"; short
\* rows count as having empty cells.  Entries keep the sheet order.
C3_CurrentRowFilter ==
  (pc = "returned" /\ path = "current") =>
    /\ Sources(filtered) = {i \in DataRows : CurrentQualifies(sheet[1], sheet[i])}
    /\ Len(filtered) = Cardinality(Sources(filtered))
    /\ InOrder(filtered)

\* C3 witness: a Current-path read kept one row and dropped another whose day
\* type is an AI marker in mixed case.
C3_Witness ==
  /\ pc = "returned"
  /\ path = "current"
  /\ Sources(filtered) # {}
  /\ \E i \in DataRows :
       /\ i \notin Sources(filtered)
       /\ strip(CellUnder(sheet[1], sheet[i], S_exercise)) # <<>>
       /\ strip(CellUnder(sheet[1], sheet[i], S_day_type_hdr)) \notin
            {S_ai_plan_space, S_ai_plan_under}
       /\ lower(strip(CellUnder(sheet[1], sheet[i], S_day_type_hdr))) \in
            {S_ai_plan_space, S_ai_plan_under}

\* C6 as stated: on the Legacy path a data row is included exactly when its
\* type cell is the string "workout_log" as it stands in the sheet.
C6_ExactTypeCell ==
  (pc = "returned" /\ path = "legacy") =>
    Sources(filtered) =
      {i \in DataRows : CellUnder(sheet[1], sheet[i], S_type) = S_workout_log}

\* C6 amended: on the Legacy path a data row is included exactly when its
\* type cell, trimmed of surrounding whitespace, is "workout_log" (case
\* matters; a missing cell or column reads as empty), so a header without a
\* type column yields no entries.  Entries keep the sheet order.
C6_TrimmedTypeCell ==
  (pc = "returned" /\ path = "legacy") =>
    /\ Sources(filtered) =
         {i \in DataRows :
            strip(CellUnder(sheet[1], sheet[i], S_type)) = S_workout_log}
    /\ Len(filtered) = Cardinality(Sources(filtered))
    /\ InOrder(filtered)
    /\ ColumnsNamed(sheet[1], S_type) = {} => workouts = <<>>

\* C6 witness: a Legacy-path read kept a row whose type cell is padded and
\* dropped a row whose type cell differs only in letter case.
C6_Witness ==
  /\ pc = "returned"
  /\ path = "legacy"
  /\ \E i \in Sources(filtered) :
       CellUnder(sheet[1], sheet[i], S_type) # S_workout_log
  /\ \E j \in DataRows :
       /\ j \notin Sources(filtered)
       /\ lower(strip(CellUnder(sheet[1], sheet[j], S_type))) = S_workout_log

\* The append call of this invocation succeeded
Appended ==
  /\ pc \in {"format", "done"}
  /\ calls.append = 1
  /\ exc # "append"

\* The reader returned in this invocation
ReadReturned ==
  \/ pc \in {"generate", "append", "format"}
  \/ pc = "done" /\ exc \notin {"config", "read"}

\* generate_advice_and_next_workout has just returned (line 308); its result
\* is about to be handed to the writer
Generated == pc = "append"

\* C4: on a Current-schema sheet, no row that append_ai_output wrote in an
\* earlier run is among the rows a later read returns.
C4_OwnRowsNeverReadBack ==
  (ReadReturned /\ path = "current") => Sources(workouts) \cap aiRows = {}

\* C5: when the range parsing, the tab-id lookup or the batch format call
\* fails after the append succeeded, the appended rows stay in the sheet and
\* the invocation ends with the success message, not in the error state.
C5_FormatFailureNonFatal ==
  (pc = "done" /\ exc \in {"range", "gid", "batch"}) =>
    /\ SubSeq(sheet, Len(sheet) - Len(values) + 1, Len(sheet)) = values
    /\ outcome # "error"
    /\ outcome = "success"

ColumnKeys ==
  <<S_week, S_date, S_day_type, S_exercise, S_set, S_weight_lbs, S_reps, S_notes>>

\* C7: the append always carries at least one row, and the rows end up at the
\* bottom of the sheet.  For a plan of n >= 1 rows it carries n rows of 8
\* columns in plan order, column k holding the row's value under the k-th of
\* week, date, day_type, exercise, set, weight_lbs, reps, notes (today's date
\* for a row without a date, empty for any other missing key).  For an empty
\* plan it carries one 8-column row with today's date in the date column,
\* "AI Plan" in the day-type column and the tips in the notes column.
C7_AppendedRows ==
  Appended =>
    LET plan == ai.workout_plan
    IN  /\ Len(values) >= 1
        /\ SubSeq(sheet, Len(sheet) - Len(values) + 1, Len(sheet)) = values
        /\ \A i \in DOMAIN values : Len(values[i]) = 8
        /\ Len(plan) >= 1 =>
             /\ Len(values) = Len(plan)
             /\ \A i \in DOMAIN plan : \A k \in 1..8 :
                  values[i][k] =
                    IF ColumnKeys[k] \in DOMAIN plan[i] THEN plan[i][ColumnKeys[k]]
                    ELSE IF k = 2 THEN today
                    ELSE <<>>
        /\ Len(plan) = 0 =>
             /\ Len(values) = 1
             /\ values[1][2] = today
             /\ values[1][3] = S_AI_Plan
             /\ values[1][8] = ai.tips

\* C7 witness: a plan of several rows, one of them without a date, was
\* appended to a sheet that holds a placeholder row with tips from an earlier
\* run.
C7_Witness ==
  /\ Appended
  /\ Len(ai.workout_plan) >= 2
  /\ \E i \in DOMAIN ai.workout_plan : S_date \notin DOMAIN ai.workout_plan[i]
  /\ \E r \in aiRows :
       /\ sheet[r][3] = S_AI_Plan
       /\ sheet[r][4] = S_No_plan_rows
       /\ sheet[r][8] # <<>>

\* The date the writer puts in appended row i
WrittenDate(i) ==
  IF Len(ai.workout_plan) = 0 THEN today
  ELSE Get(ai.workout_plan[i], S_date, today)

\* date | type | workout | notes | ai_output: five columns, the date first
LegacyLayout(row, date) == Len(row) <= 5 /\ row[1] = date

\* Week | Date | Day Type | Exercise | Set | ... | Notes: the date second
CurrentLayout(row, date) == Len(row) = 8 /\ row[2] = date

\* C8: the appended rows have the layout of the schema detected from the
\* sheet's header: the Legacy layout on a Legacy sheet, the Current layout on
\* a Current sheet.
C8_RowsMatchDetectedSchema ==
  Appended =>
    \A i \in DOMAIN values :
      /\ path = "legacy" => LegacyLayout(values[i], WrittenDate(i))
      /\ path = "current" => CurrentLayout(values[i], WrittenDate(i))

\* C9: when the reader returns no entries the invocation ends at once with
\* the warning, not the error; the model is not called and no append,
\* metadata or format call is issued.
C9_NothingFoundHalts ==
  (ReadReturned /\ workouts = <<>>) =>
    /\ pc = "done"
    /\ outcome = "warning"
    /\ exc = "none"
    /\ calls = NoCalls
    /\ reply = NoReply
    /\ values = <<>>

\* C9 witness: a sheet with data rows, none of which qualifies, ended in the
\* warning.
C9_Witness ==
  /\ pc = "done"
  /\ outcome = "warning"
  /\ Len(sheet) >= 2
  /\ workouts = <<>>

\* The items of a decoded object that normalise to key carry, in the last of
\* them, a value that is non-empty as a trimmed string
HasText(items, key) ==
  LET js == {j \in DOMAIN items : _normalize_key(items[j][1]) = key}
  IN  IF js = {} THEN FALSE ELSE strip(PyStr(items[Max(js)][2])) # <<>>

IsPlanRow(e) ==
  IF e.t # "dict" THEN FALSE
  ELSE HasText(e.items, S_day_type) /\ HasText(e.items, S_exercise)

\* The workout_plan array of the reply; empty when it is missing or no array
ReplyPlan ==
  LET got == TopGet(reply.value, S_workout_plan, JList(<<>>))
  IN  IF got.t = "list" THEN got.elems ELSE <<>>

\* C10: the returned workout_plan is, in the reply's order, the normalised
\* form of exactly those elements of the reply's workout_plan array that are
\* objects in which day_type and exercise (after key normalisation, the last
\* such key deciding) hold non-empty trimmed strings; every returned row has a
\* non-empty day_type and exercise.
C10_PlanIsFilteredSubsequence ==
  Generated =>
    LET kept == SelectSeq(ReplyPlan, IsPlanRow)
    IN  /\ Len(ai.workout_plan) = Len(kept)
        /\ \A i \in DOMAIN kept : ai.workout_plan[i] = NormalizeRow(kept[i].items)
        /\ \A i \in DOMAIN ai.workout_plan :
             /\ S_day_type \in DOMAIN ai.workout_plan[i]
             /\ S_exercise \in DOMAIN ai.workout_plan[i]
             /\ ai.workout_plan[i][S_day_type] # <<>>
             /\ ai.workout_plan[i][S_exercise] # <<>>

\* C10 witness: a reply mixing non-objects, rows without an exercise and
\* well-formed rows was reduced to its well-formed rows.
C10_Witness ==
  /\ Generated
  /\ Len(ReplyPlan) > Len(ai.workout_plan)
  /\ Len(ai.workout_plan) >= 2
  /\ \E i \in DOMAIN ReplyPlan : ReplyPlan[i].t # "dict"
  /\ \E i \in DOMAIN ReplyPlan :
       IF ReplyPlan[i].t # "dict" THEN FALSE
       ELSE HasText(ReplyPlan[i].items, S_day_type)
            /\ ~HasText(ReplyPlan[i].items, S_exercise)

====
